---- MODULE Spec2Model ----
(***************************************************************************)
(* State-machine model of the maze generators, the random number utility   *)
(* and the ray caster of the raycaster repository.                         *)
(*                                                                         *)
(* Grid cells are addressed <<x, y>>; the C++ code indexes maze[y][x].     *)
(***************************************************************************)
EXTENDS Integers, Sequences, FiniteSets, TLC

(***************************************************************************)
(* Bounds of the model                                                     *)
(***************************************************************************)
\* largest grid width / height a generator is constructed with
MaxDim == 7
\* largest width / height a RecursiveDivisionMazeGenerator is constructed with
MaxRDDim == 8
\* largest grid width / height of the instances that draw from a seeded RNG
MaxSeedDim == 5
\* seeds range over 0 .. MaxSeed (0 asks for a time-based seed)
MaxSeed == 2
\* number of draws the caller makes on its own RandomNumberGenerator
MaxCallerDraws == 2
\* loop iterations of castSingleRay the model follows
MaxRaySteps == 12
\* number of generateMaze calls made on one instance
MaxCalls == 2
\* arguments of randomInt, randomOdd and randomEven range over -MaxArg .. MaxArg
MaxArg == 3
\* longest vector handed to shuffle
MaxLen == 4
\* number of values a RandomNumberGenerator has yielded before the call observed
MaxDrawn == 2

(***************************************************************************)
(* Cell codes                                                              *)
(***************************************************************************)
PASSAGE == 0
WALL == 1
MARKER == 2

VARIABLES
  \* ---- one maze generator instance ----
  kind,       \* "dfs": DepthFirstMazeGenerator, "rd": RecursiveDivisionMazeGenerator
  ctorArgs,   \* the arguments <<w, h>> the constructor was called with
  width,      \* the generator's width member
  height,     \* the generator's height member
  maze,       \* the generator's maze member, as [<<x,y>> -> code]
  stack,      \* dfs: the local backtracking stack of generateMaze (top = last)
  work,       \* rd: the pending subdivide calls, next call last
  pc,         \* "idle" between calls, "loop" inside generateMaze
  calls,      \* number of generateMaze calls that have returned
  lastMaze,   \* the grid as the previous generateMaze call left it
  entryMaze,  \* the grid with which the running call started carving
  lastDiv     \* rd: the chamber and division of the latest subdivide call, and
              \* whether the call drew a random boolean

genVars == <<kind, ctorArgs, width, height, maze, stack, work, pc, calls, lastMaze, entryMaze, lastDiv>>

VARIABLES
  \* ---- generator instances drawing from seeded RandomNumberGenerators ----
  gens,        \* instance number -> the instance's members and its position
  extRng,      \* a RandomNumberGenerator owned by the caller
  callerDraws, \* number of draws the caller has made on extRng
  genDraws     \* number of draws generateMaze calls have made

seedVars == <<gens, extRng, callerDraws, genDraws>>

VARIABLES
  \* ---- one Raycaster::castSingleRay call ----
  worldMap,        \* Raycaster::worldMap, as [<<x,y>> -> code]
  mapWidth,        \* worldMap[0].size()
  mapHeight,       \* worldMap.size()
  maxRayDistance,  \* Raycaster::maxRayDistance
  startX,          \* parameter startX
  startY,          \* parameter startY
  rayDir,          \* rayDirectionX, rayDirectionY: cos and sin of the parameter angle
  cosDiff,         \* cos(normalizeAngleDiff(angle - playerAngle))
  currentMapX,     \* local currentMapX
  currentMapY,     \* local currentMapY
  sideDistX,       \* local sideDistX
  sideDistY,       \* local sideDistY
  hitWall,         \* local hitWall
  hitSide,         \* local hitSide
  distance,        \* local distance
  raySteps,        \* number of loop iterations executed
  rayReads,        \* the cells whose code the loop has read
  rayPath,         \* the cells the traversal has entered, in order
  rayPc,           \* "loop" inside the while loop, "done" after return
  rayHit           \* the returned RayHit

rayVars == <<worldMap, mapWidth, mapHeight, maxRayDistance, startX, startY, rayDir, cosDiff,
             currentMapX, currentMapY, sideDistX, sideDistY, hitWall, hitSide, distance,
             raySteps, rayReads, rayPath, rayPc, rayHit>>

VARIABLES
  \* ---- one RandomNumberGenerator and the calls made on it ----
  generator,       \* RandomNumberGenerator::generator
  generatorBefore, \* the generator as it was when the latest call was made
  utilCall,        \* the latest call: function name and arguments
  utilResult       \* how the latest call ended: a value or an exception

utilVars == <<generator, generatorBefore, utilCall, utilResult>>

vars == <<genVars, seedVars, rayVars, utilVars>>

(***************************************************************************)
(* Helpers shared by the generators                                        *)
(***************************************************************************)
Cells(w, h) == (0 .. (w - 1)) \X (0 .. (h - 1))

\* C++ integer division and remainder truncate toward zero
CDiv(a, b) == IF a >= 0 THEN a \div b ELSE -((-a) \div b)
CMod(a, b) == a - b * CDiv(a, b)

Last(s) == s[Len(s)]
Front(s) == SubSeq(s, 1, Len(s) - 1)

\* an assignment vec[i] = vec[j] in place of the swap
SwapOverwriting(vec, i, j) ==
  [k \in 1 .. Len(vec) |-> IF k = i + 1 THEN vec[j + 1] ELSE vec[k]]

\* std::swap(vec[i], vec[j]) with 0-based indices
Swap(vec, i, j) ==
  [k \in 1 .. Len(vec) |->
     IF k = i + 1 THEN vec[j + 1] ELSE IF k = j + 1 THEN vec[i + 1] ELSE vec[k]]

\* index choices drawn from the whole vector: js[i] in [0, n - 1]
ShuffleChoicesWholeRange(n) == [1 .. (n - 1) -> 0 .. (n - 1)]

\* the index choices a shuffle of n elements can draw: js[i] in [0, i]
ShuffleChoices(n) == {js \in [1 .. (n - 1) -> 0 .. (n - 1)] : \A i \in 1 .. (n - 1) : js[i] <= i}

\* RandomNumberGenerator::shuffle; js[i] is the index drawn for position i
RECURSIVE ShuffleLoop(_, _, _)
ShuffleLoop(vec, i, js) ==
  IF i > 0 THEN ShuffleLoop(Swap(vec, i, js[i]), i - 1, js) ELSE vec

shuffle(vec, js) == ShuffleLoop(vec, Len(vec) - 1, js)

(***************************************************************************)
(* Random number utility: the parity helpers.  k is the index the uniform  *)
(* distribution yields; Count is the size of the distribution's range, 0   *)
(* when the function returns without drawing.                              *)
(***************************************************************************)
OddLo(min) == IF CMod(min, 2) = 0 THEN min + 1 ELSE min
OddHi(max) == IF CMod(max, 2) = 0 THEN max - 1 ELSE max

randomOddCount(min, max) ==
  IF OddLo(min) > OddHi(max) THEN 0 ELSE CDiv(OddHi(max) - OddLo(min), 2) + 1

randomOdd(min, max, k) ==
  IF OddLo(min) > OddHi(max) THEN OddLo(min) ELSE OddLo(min) + k * 2

\* a lower bound that is never raised
EvenLoUnadjusted(min) == min

EvenLo(min) == IF CMod(min, 2) = 1 THEN min + 1 ELSE min
EvenHi(max) == IF CMod(max, 2) = 1 THEN max - 1 ELSE max

randomEvenCount(min, max) ==
  IF EvenLo(min) > EvenHi(max) THEN 0 ELSE CDiv(EvenHi(max) - EvenLo(min), 2) + 1

randomEven(min, max, k) ==
  IF EvenLo(min) > EvenHi(max) THEN EvenLo(min) ELSE EvenLo(min) + k * 2

\* the indices a distribution over n values can yield (a single dummy when
\* nothing is drawn)
DrawSet(n) == IF n <= 0 THEN {0} ELSE 0 .. (n - 1)

(***************************************************************************)
(* Seeded random number generator.  The state of the std::mt19937 member   *)
(* is determined by the seed and the number of values drawn since seeding. *)
(***************************************************************************)
\* RandomNumberGenerator(unsigned int seed)
SeededRng(seed) == [seed |-> seed, n |-> 0]

\* the seeds a time-seeded RandomNumberGenerator() can end up with
TimeSeeds == 1 .. MaxSeed

\* the generator's next raw output, a fixed function of its state
RngRaw(rng) ==
  (rng.seed * 7919 + rng.n * 104729 + rng.seed * rng.n * 31 + rng.n * rng.n * 17 + 12345) % 1009

\* std::uniform_int_distribution<int>(0, n - 1) applied to the generator
UniformIndex(rng, n) == RngRaw(rng) % n

\* the generator after k draws
RngAdvance(rng, k) == [rng EXCEPT !.n = @ + k]

\* the indices shuffle draws for a vector of n elements, from position n-1 down
ShuffleDraws(rng, n) ==
  [i \in 1 .. (n - 1) |-> UniformIndex(RngAdvance(rng, (n - 1) - i), i + 1)]

\* the ray caster's variables while no ray is cast
RayIdle ==
  /\ worldMap = <<>>
  /\ mapWidth = 0
  /\ mapHeight = 0
  /\ maxRayDistance = 0
  /\ startX = 0
  /\ startY = 0
  /\ rayDir = <<>>
  /\ cosDiff = <<>>
  /\ currentMapX = 0
  /\ currentMapY = 0
  /\ sideDistX = 0
  /\ sideDistY = 0
  /\ hitWall = FALSE
  /\ hitSide = "VERTICAL"
  /\ distance = 0
  /\ raySteps = 0
  /\ rayReads = {}
  /\ rayPath = <<>>
  /\ rayPc = "none"
  /\ rayHit = <<>>

\* no call has been made yet
NoCall == [fn |-> "none"]
NoResult == [kind |-> "none"]

\* the utility's variables while no RandomNumberGenerator is exercised
UtilIdle ==
  /\ generator = <<>>
  /\ generatorBefore = <<>>
  /\ utilCall = NoCall
  /\ utilResult = NoResult

\* the seed-side variables while no seeded instance exists
SeedIdle ==
  /\ gens = <<>>
  /\ extRng = SeededRng(1)
  /\ callerDraws = 0
  /\ genDraws = 0

\* no subdivide call has run yet
NoDiv == [chamber |-> <<>>, division |-> <<>>, drewBoolean |-> FALSE]

(***************************************************************************)
(* Depth-first generator                                                   *)
(***************************************************************************)
dx == <<0, 1, 0, -1>>
dy == <<-1, 0, 1, 0>>

\* a bounds test that also admits the coordinate one past the last
isValidOffByOne(w, h, x, y) == x >= 0 /\ x <= w /\ y >= 0 /\ y <= h

isValid(w, h, x, y) == x >= 0 /\ x < w /\ y >= 0 /\ y < h

isUnvisited(m, w, h, x, y) == isValid(w, h, x, y) /\ m[<<x, y>>] = WALL

getRandomDirections(js) == shuffle(<<0, 1, 2, 3>>, js)

\* the grid the constructor builds: every cell WALL
DFSConstructed(w, h) == [c \in Cells(w, h) |-> WALL]

\* candidates taken one cell away instead of two
DFSNeighborsOneAway(m, w, h, cur, js) ==
  LET dirs == getRandomDirections(js)
      cand == [k \in 1 .. 4 |-> <<cur[1] + dx[dirs[k] + 1], cur[2] + dy[dirs[k] + 1]>>]
  IN SelectSeq(cand, LAMBDA c : isUnvisited(m, w, h, c[1], c[2]))

\* the candidates of one loop iteration, in shuffled direction order
DFSNeighbors(m, w, h, cur, js) ==
  LET dirs == getRandomDirections(js)
      cand == [k \in 1 .. 4 |-> <<cur[1] + dx[dirs[k] + 1] * 2, cur[2] + dy[dirs[k] + 1] * 2>>]
  IN SelectSeq(cand, LAMBDA c : isUnvisited(m, w, h, c[1], c[2]))

\* the four cells two away from the current cell that an iteration examines
DFSCandidates(cur) == {<<cur[1] + dx[d] * 2, cur[2] + dy[d] * 2>> : d \in 1 .. 4}

\* the cells whose grid value isUnvisited reads: those that passed isValid
DFSCellsRead(w, h, cur) == {c \in DFSCandidates(cur) : isValid(w, h, c[1], c[2])}

\* a carving that forgets to halve the offset: the neighbour itself
DFSWallBetweenUnhalved(cur, nxt) ==
  <<cur[1] + (nxt[1] - cur[1]), cur[2] + (nxt[2] - cur[2])>>

\* the wall cell between the current cell and the chosen neighbour
DFSWallBetween(cur, nxt) ==
  <<cur[1] + CDiv(nxt[1] - cur[1], 2), cur[2] + CDiv(nxt[2] - cur[2], 2)>>

\* an iteration that leaves the stack as it is when no neighbour is unvisited
DFSIterateWithoutPop(m, st, w, h, js) ==
  LET cur == Last(st)
      nbs == DFSNeighbors(m, w, h, cur, js)
  IN IF nbs # <<>>
       THEN LET nxt == nbs[1]
                wl == DFSWallBetween(cur, nxt)
            IN [maze |-> [m EXCEPT ![wl] = PASSAGE, ![nxt] = PASSAGE],
                stack |-> Append(st, nxt)]
       ELSE [maze |-> m, stack |-> st]

\* one iteration of the while loop: carve and push, or pop
DFSIterate(m, st, w, h, js) ==
  LET cur == Last(st)
      nbs == DFSNeighbors(m, w, h, cur, js)
  IN IF nbs # <<>>
       THEN LET nxt == nbs[1]
                wl == DFSWallBetween(cur, nxt)
            IN [maze |-> [m EXCEPT ![wl] = PASSAGE, ![nxt] = PASSAGE],
                stack |-> Append(st, nxt)]
       ELSE [maze |-> m, stack |-> Front(st)]

\* markers written with row and column exchanged
DFSMarkersTransposed(m, w, h) == [m EXCEPT ![<<1, 0>>] = MARKER, ![<<w - 2, h - 1>>] = MARKER]

\* the two assignments after the loop
DFSMarkers(m, w, h) == [m EXCEPT ![<<0, 1>>] = MARKER, ![<<w - 1, h - 2>>] = MARKER]

DFSInit ==
  /\ SeedIdle
  /\ RayIdle
  /\ UtilIdle
  /\ kind = "dfs"
  /\ work = <<>>
  /\ lastDiv = NoDiv
  /\ width \in 3 .. MaxDim
  /\ height \in 3 .. MaxDim
  /\ ctorArgs = <<width, height>>
  /\ maze = DFSConstructed(width, height)
  /\ stack = <<>>
  /\ pc = "idle"
  /\ calls = 0
  /\ lastMaze = maze
  /\ entryMaze = maze

\* a generateMaze that starts by refilling the grid with walls
DFSBeginRefilled ==
  /\ kind = "dfs"
  /\ pc = "idle"
  /\ calls < MaxCalls
  /\ maze' = [DFSConstructed(width, height) EXCEPT ![<<1, 1>>] = PASSAGE]
  /\ stack' = <<<<1, 1>>>>
  /\ entryMaze' = maze'
  /\ pc' = "loop"
  /\ UNCHANGED <<kind, ctorArgs, width, height, work, calls, lastMaze, lastDiv>>
  /\ UNCHANGED <<seedVars, rayVars, utilVars>>

\* generateMaze up to the loop: mark (1,1) and push it
DFSBegin ==
  /\ kind = "dfs"
  /\ pc = "idle"
  /\ calls < MaxCalls
  /\ maze' = [maze EXCEPT ![<<1, 1>>] = PASSAGE]
  /\ stack' = <<<<1, 1>>>>
  /\ entryMaze' = maze'
  /\ pc' = "loop"
  /\ UNCHANGED <<kind, ctorArgs, width, height, work, calls, lastMaze, lastDiv>>
  /\ UNCHANGED <<seedVars, rayVars, utilVars>>

\* one iteration of while (!stack.empty())
DFSStep ==
  /\ kind = "dfs"
  /\ pc = "loop"
  /\ stack # <<>>
  /\ \E js \in ShuffleChoices(4) :
       LET r == DFSIterate(maze, stack, width, height, js)
       IN /\ maze' = r.maze
          /\ stack' = r.stack
  /\ UNCHANGED <<kind, ctorArgs, width, height, work, pc, calls, lastMaze, entryMaze, lastDiv>>
  /\ UNCHANGED <<seedVars, rayVars, utilVars>>

\* the loop has ended: entrance and exit, return
DFSFinish ==
  /\ kind = "dfs"
  /\ pc = "loop"
  /\ stack = <<>>
  /\ maze' = DFSMarkers(maze, width, height)
  /\ lastMaze' = maze'
  /\ calls' = calls + 1
  /\ pc' = "idle"
  /\ UNCHANGED <<kind, ctorArgs, width, height, stack, work, entryMaze, lastDiv>>
  /\ UNCHANGED <<seedVars, rayVars, utilVars>>

DFSNext == DFSBegin \/ DFSStep \/ DFSFinish

SpecDFS == DFSInit /\ [][DFSNext]_vars

\* generateMaze runs on without interruption once it has been called
SpecDFSFair == DFSInit /\ [][DFSNext]_vars /\ WF_vars(DFSStep \/ DFSFinish)

(***************************************************************************)
(* Recursive-division generator                                            *)
(***************************************************************************)
Rectangle(rectX, rectY, rectWidth, rectHeight) ==
  [x |-> rectX, y |-> rectY, width |-> rectWidth, height |-> rectHeight]

HorizontalDivision(divisionLine, passageX, chamberX, chamberWidth) ==
  [orientation |-> "HORIZONTAL", line |-> divisionLine, passagePosition |-> passageX,
   startCoord |-> chamberX, wallLength |-> chamberWidth]

VerticalDivision(divisionLine, passageY, chamberY, chamberHeight) ==
  [orientation |-> "VERTICAL", line |-> divisionLine, passagePosition |-> passageY,
   startCoord |-> chamberY, wallLength |-> chamberHeight]

\* division-line cells with row and column exchanged
getWallPointsTransposed(d) ==
  IF d.orientation = "HORIZONTAL"
    THEN {<<d.line, x>> : x \in d.startCoord .. (d.startCoord + d.wallLength - 1)}
    ELSE {<<y, d.line>> : y \in d.startCoord .. (d.startCoord + d.wallLength - 1)}

\* the cells <<x, y>> of the division line
getWallPoints(d) ==
  IF d.orientation = "HORIZONTAL"
    THEN {<<x, d.line>> : x \in d.startCoord .. (d.startCoord + d.wallLength - 1)}
    ELSE {<<d.line, y>> : y \in d.startCoord .. (d.startCoord + d.wallLength - 1)}

getPassagePoint(d) ==
  IF d.orientation = "HORIZONTAL" THEN <<d.passagePosition, d.line>>
                                  ELSE <<d.line, d.passagePosition>>

\* a test that lets a chamber through when one dimension reaches 3
canSubdivideEitherDimension(r) == r.width >= 3 \/ r.height >= 3

canSubdivide(r) == r.width >= 3 /\ r.height >= 3

\* a split whose second sub-chamber starts on the division line
splitKeepingLine(r, d) ==
  IF d.orientation = "HORIZONTAL"
    THEN <<Rectangle(r.x, r.y, r.width, d.line - r.y),
           Rectangle(r.x, d.line, r.width, (r.y + r.height) - d.line)>>
    ELSE <<Rectangle(r.x, r.y, d.line - r.x, r.height),
           Rectangle(d.line, r.y, (r.x + r.width) - d.line, r.height)>>

split(r, d) ==
  IF d.orientation = "HORIZONTAL"
    THEN <<Rectangle(r.x, r.y, r.width, d.line - r.y),
           Rectangle(r.x, d.line + 1, r.width, (r.y + r.height) - (d.line + 1))>>
    ELSE <<Rectangle(r.x, r.y, d.line - r.x, r.height),
           Rectangle(d.line + 1, r.y, (r.x + r.width) - (d.line + 1), r.height)>>

\* a constructor that stores the dimension as given
RDNormalizeSkipped(n) == n

\* the constructor's normalisation of one dimension
RDNormalize(n) == IF CMod(n, 2) = 0 THEN n + 1 ELSE n

initializeGrid(w, h) ==
  [c \in Cells(w, h) |->
     IF c[1] = 0 \/ c[1] = w - 1 \/ c[2] = 0 \/ c[2] = h - 1 THEN WALL ELSE PASSAGE]

\* a choice that compares the dimensions the other way round
chooseDivisionOrientationExchanged(chamber, b) ==
  IF chamber.width > chamber.height THEN "HORIZONTAL"
  ELSE IF chamber.height > chamber.width THEN "VERTICAL"
  ELSE IF b THEN "HORIZONTAL" ELSE "VERTICAL"

\* b is the result of randomBoolean(), used for a square chamber only
chooseDivisionOrientation(chamber, b) ==
  IF chamber.width > chamber.height THEN "VERTICAL"
  ELSE IF chamber.height > chamber.width THEN "HORIZONTAL"
  ELSE IF b THEN "HORIZONTAL" ELSE "VERTICAL"

\* whether chooseDivisionOrientation draws
RDDrawsBoolean(chamber) == chamber.width = chamber.height

\* sizes of the ranges createDivision's two parity draws range over
RDLineCount(chamber, o) ==
  IF o = "HORIZONTAL" THEN randomOddCount(chamber.y + 1, chamber.y + chamber.height - 2)
                      ELSE randomOddCount(chamber.x + 1, chamber.x + chamber.width - 2)

RDPassageCount(chamber, o) ==
  IF o = "HORIZONTAL" THEN randomEvenCount(chamber.x, chamber.x + chamber.width - 1)
                      ELSE randomEvenCount(chamber.y, chamber.y + chamber.height - 1)

\* ko, ke are the indices drawn by randomOdd and randomEven
createDivision(chamber, b, ko, ke) ==
  IF chooseDivisionOrientation(chamber, b) = "HORIZONTAL"
    THEN HorizontalDivision(randomOdd(chamber.y + 1, chamber.y + chamber.height - 2, ko),
                            randomEven(chamber.x, chamber.x + chamber.width - 1, ke),
                            chamber.x, chamber.width)
    ELSE VerticalDivision(randomOdd(chamber.x + 1, chamber.x + chamber.width - 2, ko),
                          randomEven(chamber.y, chamber.y + chamber.height - 1, ke),
                          chamber.y, chamber.height)

\* the range test drawWall and createPassage apply to a point
RDPointAccepted(w, h, pt) == pt[1] >= 0 /\ pt[1] < h /\ pt[2] >= 0 /\ pt[2] < w

drawWall(m, w, h, d) ==
  [c \in DOMAIN m |->
     IF c \in getWallPoints(d) /\ RDPointAccepted(w, h, c) THEN WALL ELSE m[c]]

createPassage(m, w, h, d) ==
  [c \in DOMAIN m |->
     IF c = getPassagePoint(d) /\ RDPointAccepted(w, h, c) THEN PASSAGE ELSE m[c]]

\* one call of subdivide, its recursive calls left pending on the work list
\* in call order (the first sub-chamber is subdivided completely before the
\* second)
subdivide(m, wk, w, h, b, ko, ke) ==
  LET chamber == Last(wk)
  IN IF ~canSubdivide(chamber)
       THEN [maze |-> m, work |-> Front(wk),
             div |-> [chamber |-> chamber, division |-> <<>>, drewBoolean |-> FALSE]]
       ELSE LET d == createDivision(chamber, b, ko, ke)
                subs == split(chamber, d)
            IN [maze |-> createPassage(drawWall(m, w, h, d), w, h, d),
                work |-> Front(wk) \o <<subs[2], subs[1]>>,
                div |-> [chamber |-> chamber, division |-> d,
                        drewBoolean |-> RDDrawsBoolean(chamber)]]

\* the two assignments with row and column exchanged
RDOpeningsTransposed(m, w, h) ==
  [c \in DOMAIN m |-> IF c = <<1, 0>> \/ c = <<h - 2, w - 1>> THEN PASSAGE ELSE m[c]]

\* the two assignments after the recursion
RDOpenings(m, w, h) == [m EXCEPT ![<<0, 1>>] = PASSAGE, ![<<w - 1, h - 2>>] = PASSAGE]

RDInit ==
  /\ SeedIdle
  /\ RayIdle
  /\ UtilIdle
  /\ kind = "rd"
  /\ \E w, h \in 3 .. MaxRDDim :
       /\ ctorArgs = <<w, h>>
       /\ width = RDNormalize(w)
       /\ height = RDNormalize(h)
  /\ maze = [c \in {} |-> WALL]
  /\ stack = <<>>
  /\ work = <<>>
  /\ pc = "idle"
  /\ calls = 0
  /\ lastMaze = maze
  /\ entryMaze = maze
  /\ lastDiv = NoDiv

\* generateMaze up to the first subdivide call
RDBegin ==
  /\ kind = "rd"
  /\ pc = "idle"
  /\ calls < MaxCalls
  /\ maze' = initializeGrid(width, height)
  /\ work' = <<Rectangle(1, 1, width - 2, height - 2)>>
  /\ entryMaze' = maze'
  /\ pc' = "loop"
  /\ UNCHANGED <<kind, ctorArgs, width, height, stack, calls, lastMaze, lastDiv>>
  /\ UNCHANGED <<seedVars, rayVars, utilVars>>

\* one subdivide call
RDStep ==
  /\ kind = "rd"
  /\ pc = "loop"
  /\ work # <<>>
  /\ \E b \in (IF RDDrawsBoolean(Last(work)) THEN BOOLEAN ELSE {FALSE}) :
       LET o == chooseDivisionOrientation(Last(work), b)
       IN \E ko \in DrawSet(RDLineCount(Last(work), o)),
             ke \in DrawSet(RDPassageCount(Last(work), o)) :
            LET r == subdivide(maze, work, width, height, b, ko, ke)
            IN /\ maze' = r.maze
               /\ work' = r.work
               /\ lastDiv' = r.div
  /\ UNCHANGED <<kind, ctorArgs, width, height, stack, pc, calls, lastMaze, entryMaze>>
  /\ UNCHANGED <<seedVars, rayVars, utilVars>>

\* the recursion has returned: entrance and exit, return
RDFinish ==
  /\ kind = "rd"
  /\ pc = "loop"
  /\ work = <<>>
  /\ maze' = RDOpenings(maze, width, height)
  /\ lastMaze' = maze'
  /\ calls' = calls + 1
  /\ pc' = "idle"
  /\ UNCHANGED <<kind, ctorArgs, width, height, stack, work, entryMaze, lastDiv>>
  /\ UNCHANGED <<seedVars, rayVars, utilVars>>

RDNext == RDBegin \/ RDStep \/ RDFinish

SpecRD == RDInit /\ [][RDNext]_vars

\* either generator
GenInit == DFSInit \/ RDInit
GenNext == DFSBegin \/ DFSStep \/ DFSFinish \/ RDBegin \/ RDStep \/ RDFinish
SpecGen == GenInit /\ [][GenNext]_vars

(***************************************************************************)
(* Generator instances with their own RandomNumberGenerator member         *)
(***************************************************************************)
\* an instance that has not been constructed yet
Unconstructed ==
  [kind |-> "none", width |-> 0, height |-> 0, maze |-> <<>>, stack |-> <<>>,
   work |-> <<>>, pc |-> "none", calls |-> 0, rng |-> SeededRng(0), seedArg |-> 0]

\* DepthFirstMazeGenerator(w, h, ...) with the rng member initialised to r
NewDFS(w, h, seedArg, r) ==
  [kind |-> "dfs", width |-> w, height |-> h, maze |-> DFSConstructed(w, h),
   stack |-> <<>>, work |-> <<>>, pc |-> "idle", calls |-> 0, rng |-> r, seedArg |-> seedArg]

\* RecursiveDivisionMazeGenerator(w, h, seed) with the rng member initialised to r
NewRD(w, h, seedArg, r) ==
  [kind |-> "rd", width |-> RDNormalize(w), height |-> RDNormalize(h),
   maze |-> [c \in {} |-> WALL],
   stack |-> <<>>, work |-> <<>>, pc |-> "idle", calls |-> 0, rng |-> r, seedArg |-> seedArg]

\* a constructor that seeds from the clock whatever seed it is given
SeedChoicesIgnoringSeed(seedArg) == TimeSeeds

\* the rng member both seeded constructors build: the given seed, or for
\* seed 0 a seed taken from the clock
SeedChoices(seedArg) == IF seedArg = 0 THEN TimeSeeds ELSE {seedArg}

\* generateMaze up to its loop / its first subdivide call
GenBeginOp(g) ==
  IF g.kind = "dfs"
    THEN [g EXCEPT !.maze = [g.maze EXCEPT ![<<1, 1>>] = PASSAGE],
                   !.stack = <<<<1, 1>>>>, !.pc = "loop"]
    ELSE [g EXCEPT !.maze = initializeGrid(g.width, g.height),
                   !.work = <<Rectangle(1, 1, g.width - 2, g.height - 2)>>, !.pc = "loop"]

\* number of draws one subdivide call makes on chamber ch, and their values
RDSeededDraws(rng, ch) ==
  LET nb == IF RDDrawsBoolean(ch) THEN 1 ELSE 0
      b == nb = 1 /\ UniformIndex(rng, 2) = 1
      o == chooseDivisionOrientation(ch, b)
      lc == RDLineCount(ch, o)
      no == IF lc > 0 THEN 1 ELSE 0
      ko == IF lc > 0 THEN UniformIndex(RngAdvance(rng, nb), lc) ELSE 0
      pcnt == RDPassageCount(ch, o)
      ne == IF pcnt > 0 THEN 1 ELSE 0
      ke == IF pcnt > 0 THEN UniformIndex(RngAdvance(rng, nb + no), pcnt) ELSE 0
  IN [b |-> b, ko |-> ko, ke |-> ke, count |-> nb + no + ne]

\* number of draws the next loop iteration / subdivide call of g makes
GenStepDraws(g) ==
  IF g.kind = "dfs" THEN 3
  ELSE IF canSubdivide(Last(g.work)) THEN RDSeededDraws(g.rng, Last(g.work)).count ELSE 0

\* one loop iteration / one subdivide call, drawing from the instance's rng
GenStepOp(g) ==
  IF g.kind = "dfs"
    THEN LET r == DFSIterate(g.maze, g.stack, g.width, g.height, ShuffleDraws(g.rng, 4))
         IN [g EXCEPT !.maze = r.maze, !.stack = r.stack, !.rng = RngAdvance(g.rng, 3)]
    ELSE LET d == RDSeededDraws(g.rng, Last(g.work))
             r == subdivide(g.maze, g.work, g.width, g.height, d.b, d.ko, d.ke)
         IN [g EXCEPT !.maze = r.maze, !.work = r.work,
                      !.rng = RngAdvance(g.rng, GenStepDraws(g))]

\* the end of generateMaze
GenFinishOp(g) ==
  [g EXCEPT !.maze = IF g.kind = "dfs" THEN DFSMarkers(g.maze, g.width, g.height)
                                       ELSE RDOpenings(g.maze, g.width, g.height),
            !.calls = g.calls + 1, !.pc = "idle"]

GenIdleVars ==
  /\ kind = "none"
  /\ ctorArgs = <<>>
  /\ width = 0
  /\ height = 0
  /\ maze = <<>>
  /\ stack = <<>>
  /\ work = <<>>
  /\ pc = "none"
  /\ calls = 0
  /\ lastMaze = <<>>
  /\ entryMaze = <<>>
  /\ lastDiv = NoDiv

\* two instances of one kind and size, each constructed with a seed
SeedInit ==
  /\ GenIdleVars
  /\ RayIdle
  /\ UtilIdle
  /\ extRng = SeededRng(1)
  /\ callerDraws = 0
  /\ genDraws = 0
  /\ \E k \in {"dfs", "rd"}, w, h \in 3 .. MaxSeedDim, s1, s2 \in 0 .. MaxSeed :
       \E e1 \in SeedChoices(s1), e2 \in SeedChoices(s2) :
          gens = [i \in 1 .. 2 |->
                    IF k = "dfs"
                      THEN NewDFS(w, h, IF i = 1 THEN s1 ELSE s2,
                                  SeededRng(IF i = 1 THEN e1 ELSE e2))
                      ELSE NewRD(w, h, IF i = 1 THEN s1 ELSE s2,
                                 SeededRng(IF i = 1 THEN e1 ELSE e2))]

\* instance i enters generateMaze (each instance generates once)
GenBegin(i) ==
  /\ gens[i].pc = "idle"
  /\ gens[i].calls = 0
  /\ gens' = [gens EXCEPT ![i] = GenBeginOp(gens[i])]
  /\ UNCHANGED <<extRng, callerDraws, genDraws>>
  /\ UNCHANGED <<genVars, rayVars, utilVars>>

\* instance i runs one loop iteration / subdivide call
GenStep(i) ==
  /\ gens[i].pc = "loop"
  /\ (IF gens[i].kind = "dfs" THEN gens[i].stack ELSE gens[i].work) # <<>>
  /\ gens' = [gens EXCEPT ![i] = GenStepOp(gens[i])]
  /\ genDraws' = genDraws + GenStepDraws(gens[i])
  /\ UNCHANGED <<extRng, callerDraws>>
  /\ UNCHANGED <<genVars, rayVars, utilVars>>

\* instance i leaves generateMaze
GenFinish(i) ==
  /\ gens[i].pc = "loop"
  /\ (IF gens[i].kind = "dfs" THEN gens[i].stack ELSE gens[i].work) = <<>>
  /\ gens' = [gens EXCEPT ![i] = GenFinishOp(gens[i])]
  /\ UNCHANGED <<extRng, callerDraws, genDraws>>
  /\ UNCHANGED <<genVars, rayVars, utilVars>>

SeedNext == \E i \in 1 .. 2 : GenBegin(i) \/ GenStep(i) \/ GenFinish(i)

SpecSeed == SeedInit /\ [][SeedNext]_vars

(***************************************************************************)
(* Generators constructed from the caller's RandomNumberGenerator          *)
(***************************************************************************)
SharedInit ==
  /\ GenIdleVars
  /\ RayIdle
  /\ UtilIdle
  /\ \E s \in 1 .. MaxSeed : extRng = SeededRng(s)
  /\ callerDraws = 0
  /\ genDraws = 0
  /\ gens = [i \in 1 .. 2 |-> Unconstructed]

\* DepthFirstMazeGenerator(w, h, externalRng): the member rng(externalRng)
ConstructShared(i) ==
  /\ gens[i].pc = "none"
  /\ \E w, h \in 3 .. MaxSeedDim :
       gens' = [gens EXCEPT ![i] = NewDFS(w, h, 0, extRng)]
  /\ UNCHANGED <<extRng, callerDraws, genDraws>>
  /\ UNCHANGED <<genVars, rayVars, utilVars>>

\* the caller draws a value from its RandomNumberGenerator
CallerDraw ==
  /\ callerDraws < MaxCallerDraws
  /\ extRng' = RngAdvance(extRng, 1)
  /\ callerDraws' = callerDraws + 1
  /\ UNCHANGED <<gens, genDraws>>
  /\ UNCHANGED <<genVars, rayVars, utilVars>>

SharedNext ==
  \/ CallerDraw
  \/ \E i \in 1 .. 2 : ConstructShared(i) \/ GenBegin(i) \/ GenStep(i) \/ GenFinish(i)

SpecShared == SharedInit /\ [][SharedNext]_vars

(***************************************************************************)
(* Random number utility exercised on its own: calls of randomInt,         *)
(* randomOdd, randomEven and shuffle on a seeded RandomNumberGenerator that *)
(* has been drawn from before; one call is observed.                       *)
(* The value a distribution yields is any value of its range.              *)
(***************************************************************************)
UtilArgs == (-MaxArg) .. MaxArg

\* the vectors handed to shuffle: of every length up to MaxLen, the vector of
\* distinct elements and the vectors over two values
ShuffleInputs ==
  UNION {[1 .. n -> 1 .. 2] \cup {[i \in 1 .. n |-> i]} : n \in 0 .. MaxLen}

\* a guard that also rejects min = max
randomIntThrowsOnEqual(min, max) == min >= max

\* the guard of randomInt
randomIntThrows(min, max) == min > max

Returned(v) == [kind |-> "value", value |-> v]
Thrown(e) == [kind |-> "throw", value |-> e]

UtilInit ==
  /\ GenIdleVars
  /\ SeedIdle
  /\ RayIdle
  /\ \E seed \in 1 .. MaxSeed, n \in 0 .. MaxDrawn : generator = RngAdvance(SeededRng(seed), n)
  /\ generatorBefore = generator
  /\ utilCall = NoCall
  /\ utilResult = NoResult

UtilRandomInt ==
  /\ utilCall = NoCall
  /\ \E min, max \in UtilArgs :
       /\ utilCall' = [fn |-> "randomInt", min |-> min, max |-> max]
       /\ IF randomIntThrows(min, max)
            THEN /\ utilResult' = Thrown("invalid_argument")
                 /\ generator' = generator
            ELSE /\ \E v \in min .. max : utilResult' = Returned(v)
                 /\ generator' = RngAdvance(generator, 1)
  /\ generatorBefore' = generator
  /\ UNCHANGED <<genVars, seedVars, rayVars>>

UtilRandomOdd ==
  /\ utilCall = NoCall
  /\ \E min, max \in UtilArgs :
       /\ utilCall' = [fn |-> "randomOdd", min |-> min, max |-> max]
       /\ \E k \in DrawSet(randomOddCount(min, max)) :
            utilResult' = Returned(randomOdd(min, max, k))
       /\ generator' = IF randomOddCount(min, max) = 0 THEN generator
                                                       ELSE RngAdvance(generator, 1)
  /\ generatorBefore' = generator
  /\ UNCHANGED <<genVars, seedVars, rayVars>>

UtilRandomEven ==
  /\ utilCall = NoCall
  /\ \E min, max \in UtilArgs :
       /\ utilCall' = [fn |-> "randomEven", min |-> min, max |-> max]
       /\ \E k \in DrawSet(randomEvenCount(min, max)) :
            utilResult' = Returned(randomEven(min, max, k))
       /\ generator' = IF randomEvenCount(min, max) = 0 THEN generator
                                                        ELSE RngAdvance(generator, 1)
  /\ generatorBefore' = generator
  /\ UNCHANGED <<genVars, seedVars, rayVars>>

UtilShuffle ==
  /\ utilCall = NoCall
  /\ \E v \in ShuffleInputs :
       \E js \in ShuffleChoices(Len(v)) :
          /\ utilCall' = [fn |-> "shuffle", before |-> v, picks |-> js]
          /\ utilResult' = Returned(shuffle(v, js))
          /\ generator' = RngAdvance(generator, IF Len(v) > 0 THEN Len(v) - 1 ELSE 0)
  /\ generatorBefore' = generator
  /\ UNCHANGED <<genVars, seedVars, rayVars>>

UtilNext == UtilRandomInt \/ UtilRandomOdd \/ UtilRandomEven \/ UtilShuffle

SpecUtil == UtilInit /\ [][UtilNext]_vars

(***************************************************************************)
(* Ray caster.  A float is modelled in fixed point: a finite value v is    *)
(* the integer v * Unit; Inf and NaN stand for the two special values the  *)
(* code can produce (1 / 0 and inf - inf).                                 *)
(***************************************************************************)
Unit == 120
Inf == 2000000000
NaN == 2000000001

\* |1 / cosf(pi/2)| and |1 / sinf(pi)| in cells: the float angles pi/2 and pi
\* are not exact, the small component is about 1e-7.  Any value far above the
\* grid extent gives the same traversal; this one keeps products in range.
NearAxis == 10000

\* a < b on floats
FLt(a, b) == a # NaN /\ b # NaN /\ a < b

\* a + b for finite b
FAdd(a, b) == IF a = NaN \/ b = NaN THEN NaN ELSE IF a = Inf \/ b = Inf THEN Inf ELSE a + b

\* a - b for the operands the code subtracts (side distance minus its delta)
FSub(a, b) ==
  IF a = NaN \/ b = NaN THEN NaN
  ELSE IF a = Inf /\ b = Inf THEN NaN
  ELSE IF a = Inf THEN Inf
  ELSE a - b

\* a * b for a finite non-negative fraction a
FMul(a, b) ==
  IF a = NaN \/ b = NaN THEN NaN
  ELSE IF b = Inf THEN (IF a = 0 THEN NaN ELSE Inf)
  ELSE (a * b) \div Unit

\* v * (n / d) for a finite factor n / d
FScale(v, n, d) ==
  IF v = NaN THEN NaN
  ELSE IF v = Inf THEN (IF n = 0 THEN NaN ELSE Inf)
  ELSE CDiv(v * n, d)

\* abs(1 / rayDirection) for rayDirection = n / d
deltaDist(n, d) == IF n = 0 THEN Inf ELSE (Unit * d) \div (IF n < 0 THEN -n ELSE n)

\* stepX / stepY
stepOf(n) == IF n < 0 THEN -1 ELSE 1

\* an initial side distance measured to the upper face whatever the sign
sideDistInitIgnoringSign(n, d, start, cell) ==
  FMul((cell + 1) * Unit - start, deltaDist(n, d))

\* the initial sideDistX / sideDistY
sideDistInit(n, d, start, cell) ==
  IF n < 0 THEN FMul(start - cell * Unit, deltaDist(n, d))
           ELSE FMul((cell + 1) * Unit - start, deltaDist(n, d))

\* floor(startX)
floorOf(v) == v \div Unit

\* the values of cos(angle), sin(angle) for the angles cast: the four axis
\* headings as floats, and four oblique angles with rational cosine and sine
RayDirs ==
  {[angle |-> "0",     xn |-> 1,  xd |-> 1,        yn |-> 0,  yd |-> 1],
   [angle |-> "pi/2",  xn |-> -1, xd |-> NearAxis, yn |-> 1,  yd |-> 1],
   [angle |-> "pi",    xn |-> -1, xd |-> 1,        yn |-> -1, yd |-> NearAxis],
   [angle |-> "-pi/2", xn |-> -1, xd |-> NearAxis, yn |-> -1, yd |-> 1],
   [angle |-> "atan(4/3)",      xn |-> 3,  xd |-> 5, yn |-> 4,  yd |-> 5],
   [angle |-> "-atan(3/4)",     xn |-> 4,  xd |-> 5, yn |-> -3, yd |-> 5],
   [angle |-> "atan(4/3)-pi",   xn |-> -3, xd |-> 5, yn |-> -4, yd |-> 5],
   [angle |-> "pi-atan(3/4)",   xn |-> -4, xd |-> 5, yn |-> 3,  yd |-> 5]}

\* the values of cos(angle - playerAngle): the ray along the heading, and a
\* ray atan(4/3) away from it
RayCosDiffs == {[n |-> 1, d |-> 1], [n |-> 3, d |-> 5]}

\* the values given to setMaxDistance
RayMaxDistances == {0, 2 * Unit, 6 * Unit, 10 * Unit}

\* a grid from its rows
MapOf(rows) == [c \in Cells(Len(rows[1]), Len(rows)) |-> rows[c[2] + 1][c[1] + 1]]

\* an all-open 5x5 grid framed by walls
OpenRoom ==
  <<<<1, 1, 1, 1, 1>>,
    <<1, 0, 0, 0, 1>>,
    <<1, 0, 0, 0, 1>>,
    <<1, 0, 0, 0, 1>>,
    <<1, 1, 1, 1, 1>>>>

\* a closed corridor of six passage cells
Corridor ==
  <<<<1, 1, 1, 1, 1, 1, 1, 1>>,
    <<1, 0, 0, 0, 0, 0, 0, 1>>,
    <<1, 1, 1, 1, 1, 1, 1, 1>>>>

\* the grid RecursiveDivisionMazeGenerator(7, 3) generates: row 1 is open
\* from the entrance to the exit
DivisionRow ==
  <<<<1, 1, 1, 1, 1, 1, 1>>,
    <<0, 0, 0, 0, 0, 0, 0>>,
    <<1, 1, 1, 1, 1, 1, 1>>>>

\* a grid DepthFirstMazeGenerator(5, 5) generates, with its two markers
DepthFirstMaze ==
  <<<<1, 1, 1, 1, 1>>,
    <<2, 0, 0, 0, 1>>,
    <<1, 1, 1, 0, 1>>,
    <<1, 0, 0, 0, 2>>,
    <<1, 1, 1, 1, 1>>>>

RayMaps == {OpenRoom, Corridor, DivisionRow, DepthFirstMaze}

\* WorldMap::isWall
isWall(m, w, h, x, y) ==
  IF x < 0 \/ x >= w \/ y < 0 \/ y >= h THEN TRUE ELSE m[<<x, y>>] # 0

\* a range test whose upper limits are off by one
RayOutsideOffByOne(x, y, w, h) == y < 0 \/ y > h \/ x < 0 \/ x > w

\* the range test of the loop: the cell has left the grid
RayOutside(x, y, w, h) == y < 0 \/ y >= h \/ x < 0 \/ x >= w

\* a ray length that is not stepped back by one delta
wallDistanceNotSteppedBack(side, sdx, sdy, dir) ==
  IF side = "VERTICAL" THEN sdx ELSE sdy

\* the ray length at the end of the loop: the side distance of the axis of
\* the last step, stepped back by one delta
wallDistanceOf(side, sdx, sdy, dir) ==
  IF side = "VERTICAL" THEN FSub(sdx, deltaDist(dir.xn, dir.xd))
                       ELSE FSub(sdy, deltaDist(dir.yn, dir.yd))

\* the range test before the final read of the cell code
RayInside(x, y, w, h) == y >= 0 /\ y < h /\ x >= 0 /\ x < w

\* the values worldMap[y][x] can yield: the cell's code, or anything when
\* the index is outside the vectors
ReadCell(m, c) == IF c \in DOMAIN m THEN {m[c]} ELSE {PASSAGE, WALL, MARKER}

\* a loop that goes on although the cell has left the grid or is a wall
RayLoopCondIgnoringHit == FLt(distance, maxRayDistance)

\* the cells a ray is started from: every cell of the grid and the ring of
\* cells around it
RayStartCells(w, h) == (-1 .. w) \X (-1 .. h)

\* the loop condition
RayLoopCond == ~hitWall /\ FLt(distance, maxRayDistance)

\* castSingleRay up to the loop, for every input of the model
RayInit ==
  /\ GenIdleVars
  /\ SeedIdle
  /\ UtilIdle
  /\ \E rows \in RayMaps :
       /\ worldMap = MapOf(rows)
       /\ mapWidth = Len(rows[1])
       /\ mapHeight = Len(rows)
  /\ maxRayDistance \in RayMaxDistances
  /\ \E c \in RayStartCells(mapWidth, mapHeight), fx, fy \in {0, Unit \div 2} :
       /\ startX = c[1] * Unit + fx
       /\ startY = c[2] * Unit + fy
  /\ rayDir \in RayDirs
  /\ cosDiff \in RayCosDiffs
  /\ currentMapX = floorOf(startX)
  /\ currentMapY = floorOf(startY)
  /\ sideDistX = sideDistInit(rayDir.xn, rayDir.xd, startX, currentMapX)
  /\ sideDistY = sideDistInit(rayDir.yn, rayDir.yd, startY, currentMapY)
  /\ hitWall = FALSE
  /\ hitSide \in {"HORIZONTAL", "VERTICAL"}
  /\ distance = 0
  /\ raySteps = 0
  /\ rayReads = {}
  /\ rayPath = <<>>
  /\ rayPc = "loop"
  /\ rayHit = <<>>

\* one iteration of the while loop
RayStep ==
  /\ rayPc = "loop"
  /\ RayLoopCond
  /\ raySteps < MaxRaySteps
  /\ LET takeX == FLt(sideDistX, sideDistY)
         nx == IF takeX THEN currentMapX + stepOf(rayDir.xn) ELSE currentMapX
         ny == IF takeX THEN currentMapY ELSE currentMapY + stepOf(rayDir.yn)
     IN /\ sideDistX' = IF takeX THEN FAdd(sideDistX, deltaDist(rayDir.xn, rayDir.xd))
                                 ELSE sideDistX
        /\ sideDistY' = IF takeX THEN sideDistY
                                 ELSE FAdd(sideDistY, deltaDist(rayDir.yn, rayDir.yd))
        /\ currentMapX' = nx
        /\ currentMapY' = ny
        /\ hitSide' = IF takeX THEN "VERTICAL" ELSE "HORIZONTAL"
        /\ rayPath' = Append(rayPath, <<nx, ny>>)
        /\ IF RayOutside(nx, ny, mapWidth, mapHeight)
             THEN /\ hitWall' = TRUE
                  /\ rayReads' = rayReads
             ELSE /\ rayReads' = rayReads \cup {<<nx, ny>>}
                  /\ \E v \in ReadCell(worldMap, <<nx, ny>>) : hitWall' = (v # 0)
  /\ raySteps' = raySteps + 1
  /\ UNCHANGED <<worldMap, mapWidth, mapHeight, maxRayDistance, startX, startY, rayDir,
                 cosDiff, distance, rayPc, rayHit>>
  /\ UNCHANGED <<genVars, seedVars, utilVars>>

\* the loop has ended: distance, hit point, fisheye correction, cell code
RayFinish ==
  /\ rayPc = "loop"
  /\ ~RayLoopCond
  /\ LET wallDistance == wallDistanceOf(hitSide, sideDistX, sideDistY, rayDir)
         inside == RayInside(currentMapX, currentMapY, mapWidth, mapHeight)
     IN /\ \E v \in (IF inside THEN ReadCell(worldMap, <<currentMapX, currentMapY>>)
                               ELSE {1}) :
             rayHit' = [distance |-> FScale(wallDistance, cosDiff.n, cosDiff.d),
                        hitX |-> FAdd(startX, FScale(wallDistance, rayDir.xn, rayDir.xd)),
                        hitY |-> FAdd(startY, FScale(wallDistance, rayDir.yn, rayDir.yd)),
                        wallType |-> v,
                        hitVerticalWall |-> (hitSide = "VERTICAL"),
                        angle |-> rayDir.angle]
        /\ rayReads' = IF inside THEN rayReads \cup {<<currentMapX, currentMapY>>}
                                 ELSE rayReads
  /\ rayPc' = "done"
  /\ UNCHANGED <<worldMap, mapWidth, mapHeight, maxRayDistance, startX, startY, rayDir,
                 cosDiff, currentMapX, currentMapY, sideDistX, sideDistY, hitWall, hitSide,
                 distance, raySteps, rayPath>>
  /\ UNCHANGED <<genVars, seedVars, utilVars>>

RayNext == RayStep \/ RayFinish

SpecRay == RayInit /\ [][RayNext]_vars

\* the loop is executed without interruption
SpecRayFair == RayInit /\ [][RayNext]_vars /\ WF_vars(RayNext)

(***************************************************************************)
(* Graph helpers for the properties                                        *)
(***************************************************************************)
Odd(n) == n % 2 = 1

Adjacent(a, b) ==
  \/ (a[1] = b[1] /\ (a[2] = b[2] + 1 \/ b[2] = a[2] + 1))
  \/ (a[2] = b[2] /\ (a[1] = b[1] + 1 \/ b[1] = a[1] + 1))

\* the cells of grid m holding PASSAGE
PassageCells(m) == {c \in DOMAIN m : m[c] = PASSAGE}

\* the cells with both coordinates odd
OddCells(w, h) == {c \in Cells(w, h) : Odd(c[1]) /\ Odd(c[2])}

\* the set of cells of V reachable from the set R by steps between adjacent cells
RECURSIVE ReachFrom(_, _)
ReachFrom(R, V) ==
  LET N == R \cup {c \in V : \E r \in R : Adjacent(r, c)}
  IN IF N = R THEN R ELSE ReachFrom(N, V)

EdgesOf(V) == {{q[1], q[2]} : q \in {p \in V \X V : Adjacent(p[1], p[2])}}

\* number of simple paths in V from a to b that avoid the cells in seen
RECURSIVE NumPaths(_, _, _, _)
RECURSIVE SumPaths(_, _, _, _)
NumPaths(a, b, V, seen) ==
  IF a = b THEN 1
  ELSE SumPaths({c \in V \ seen : Adjacent(a, c)}, b, V, seen \cup {a})
SumPaths(S, b, V, seen) ==
  IF S = {} THEN 0
  ELSE LET c == CHOOSE x \in S : TRUE
       IN NumPaths(c, b, V, seen) + SumPaths(S \ {c}, b, V, seen)

DFSFinished == pc = "idle" /\ calls >= 1
OddDims == Odd(width) /\ Odd(height)

(***************************************************************************)
(* Properties of the depth-first generator                                 *)
(***************************************************************************)
\* C1: for odd width and height, when generateMaze has finished the passage
\* cells form a spanning tree rooted at (1,1): every cell with both
\* coordinates odd is a passage, exactly (number of such cells - 1) other
\* cells have been carved, the passage graph is connected from (1,1) and has
\* one edge less than it has cells (no cycle), and any two passage cells are
\* joined by exactly one simple path.
C1_SpanningTree ==
  (DFSFinished /\ OddDims) =>
     LET V == PassageCells(maze)
         O == OddCells(width, height)
     IN /\ O \subseteq V
        /\ Cardinality(V \ O) = Cardinality(O) - 1
        /\ ReachFrom({<<1, 1>>}, V) = V
        /\ Cardinality(EdgesOf(V)) = Cardinality(V) - 1
        /\ \A a, b \in V : NumPaths(a, b, V, {}) = 1

C1_Witness ==
  /\ DFSFinished /\ calls = 1
  /\ width = 5 /\ height = 5
  /\ Cardinality(PassageCells(maze)) = 7

BorderCells(w, h) == {c \in Cells(w, h) : c[1] = 0 \/ c[1] = w - 1 \/ c[2] = 0 \/ c[2] = h - 1}

\* C2: for odd width and height, after generateMaze every border cell is
\* WALL except the entrance (0,1) and the exit (width-1, height-2), which
\* both hold MARKER.
C2_BorderWalls ==
  (DFSFinished /\ OddDims) =>
     \A c \in BorderCells(width, height) :
        IF c = <<0, 1>> \/ c = <<width - 1, height - 2>>
          THEN maze[c] = MARKER
          ELSE maze[c] = WALL

C2_Witness ==
  /\ DFSFinished /\ OddDims
  /\ height = 5 /\ width = 3
  /\ maze[<<0, 1>>] = MARKER /\ maze[<<2, 3>>] = MARKER /\ maze[<<0, 3>>] = WALL

(***************************************************************************)
(* Properties of seeded generation                                         *)
(***************************************************************************)
GenDone(i) == gens # <<>> /\ gens[i].pc = "idle" /\ gens[i].calls = 1

\* C3: two generator instances of the same kind, constructed with the same
\* dimensions and the same non-zero seed, each having run generateMaze once,
\* hold identical grids.
C3_SameSeedSameGrid ==
  (/\ GenDone(1) /\ GenDone(2)
   /\ gens[1].seedArg # 0
   /\ gens[1].seedArg = gens[2].seedArg) => gens[1].maze = gens[2].maze

C3_Witness ==
  /\ GenDone(1) /\ GenDone(2)
  /\ gens[1].seedArg = 2 /\ gens[2].seedArg = 2
  /\ gens[1].kind = "dfs" /\ gens[1].width = 5 /\ gens[1].height = 5
  /\ gens[1].maze = gens[2].maze
  /\ gens[1].maze[<<0, 1>>] = MARKER

\* different seeds can give different grids (the seed takes part in the result)
C3_SeedMatters ==
  /\ GenDone(1) /\ GenDone(2)
  /\ gens[1].seedArg # 0 /\ gens[2].seedArg # 0
  /\ gens[1].maze # gens[2].maze

(***************************************************************************)
(* Properties of repeated generation                                       *)
(***************************************************************************)
InSecondCall == pc = "loop" /\ calls >= 1

RayDone == rayPc = "done"
CurrentCell == <<currentMapX, currentMapY>>
CurrentOutside == CurrentCell \notin DOMAIN worldMap
StartCell == <<floorOf(startX), floorOf(startY)>>

\* the ray length accumulated by the steps taken so far
RayTravelled == wallDistanceOf(hitSide, sideDistX, sideDistY, rayDir)

\* C4: the traversal stops once the accumulated ray distance exceeds the
\* configured maximum distance: a ray whose accumulated distance is above the
\* maximum takes no further step, and no ray takes more steps than a ray of
\* that length can cross cell faces (one per cell and axis, and one for the
\* face it starts on).
C4_MaxDistanceStops ==
  /\ (rayPc = "loop" /\ raySteps >= 1 /\ FLt(maxRayDistance, RayTravelled)) => ~RayLoopCond
  /\ raySteps * Unit <= 2 * maxRayDistance + 2 * Unit

\* C5: when a step moves the current cell outside the grid the ray ends at
\* that step (no later step follows) and its RayHit reports cell code 1; no
\* cell outside the grid is ever read.
C5_OutOfBoundsIsWall ==
  /\ rayReads \subseteq DOMAIN worldMap
  /\ \A i \in 1 .. Len(rayPath) : rayPath[i] \notin DOMAIN worldMap => i = Len(rayPath)
  /\ (raySteps >= 1 /\ CurrentOutside) => (hitWall /\ ~RayLoopCond)
  /\ (RayDone /\ CurrentOutside) => rayHit.wallType = 1

C5_Witness ==
  /\ RayDone
  /\ StartCell \in DOMAIN worldMap
  /\ raySteps >= 2
  /\ CurrentOutside
  /\ rayHit.wallType = 1

AxisAngles == {"0", "pi/2", "pi", "-pi/2"}

AxisOf(a) ==
  IF a = "0" THEN <<1, 0>> ELSE IF a = "pi/2" THEN <<0, 1>>
  ELSE IF a = "pi" THEN <<-1, 0>> ELSE <<0, -1>>

\* the first cell after c in direction d that is not a passage cell of the grid
RECURSIVE FirstBlocked(_, _)
FirstBlocked(c, d) ==
  LET n == <<c[1] + d[1], c[2] + d[2]>>
  IN IF n \notin DOMAIN worldMap \/ worldMap[n] # PASSAGE THEN n ELSE FirstBlocked(n, d)

\* distance from the start point to the near face of that cell
FaceDistance(a) ==
  LET b == FirstBlocked(StartCell, AxisOf(a))
  IN IF a = "0" THEN b[1] * Unit - startX
     ELSE IF a = "pi" THEN startX - (b[1] + 1) * Unit
     ELSE IF a = "pi/2" THEN b[2] * Unit - startY
     ELSE startY - (b[2] + 1) * Unit

\* an axis ray that has been cast to its end from a point in the interior of
\* a passage cell
AxisRayCast ==
  /\ RayDone
  /\ maxRayDistance > 0
  /\ rayDir.angle \in AxisAngles
  /\ StartCell \in DOMAIN worldMap
  /\ worldMap[StartCell] = PASSAGE
  /\ startX % Unit # 0 /\ startY % Unit # 0

\* the 5x5 room of the example, seen from (2.5, 2.5) with heading 0
RoomExample ==
  /\ worldMap = MapOf(OpenRoom)
  /\ startX = 5 * (Unit \div 2) /\ startY = 5 * (Unit \div 2)
  /\ rayDir.angle = "0"
  /\ cosDiff = [n |-> 1, d |-> 1]
  /\ maxRayDistance = 10 * Unit

\* C6 as stated: for a ray along a grid axis from a point inside a passage
\* cell the reported distance equals the distance from the start point to
\* the near face of the first non-passage cell in that direction, with
\* orientation VERTICAL along x and HORIZONTAL along y.
C6_AxisRayFaceDistance ==
  AxisRayCast =>
    /\ rayHit.distance = FaceDistance(rayDir.angle)
    /\ rayHit.hitVerticalWall = (rayDir.angle \in {"0", "pi"})

\* C6 as amended: the reported distance is that face distance multiplied by
\* cos(ray angle - view heading), so it equals the face distance for the ray
\* along the heading; the orientation is VERTICAL along x and HORIZONTAL
\* along y; in the 5x5 room from (2.5, 2.5) with heading 0 the ray along the
\* heading passes cell (3,2), stops at cell (4,2) and reports exactly 1.5,
\* VERTICAL.
C6_AxisRayCorrectedFaceDistance ==
  /\ AxisRayCast =>
       /\ rayHit.distance = FScale(FaceDistance(rayDir.angle), cosDiff.n, cosDiff.d)
       /\ (cosDiff.n = cosDiff.d => rayHit.distance = FaceDistance(rayDir.angle))
       /\ rayHit.hitVerticalWall = (rayDir.angle \in {"0", "pi"})
       /\ CurrentCell = FirstBlocked(StartCell, AxisOf(rayDir.angle))
  /\ (RayDone /\ RoomExample) =>
       /\ rayPath = <<<<3, 2>>, <<4, 2>>>>
       /\ rayHit.distance = 3 * (Unit \div 2)
       /\ rayHit.hitVerticalWall

C6_Witness ==
  /\ RayDone /\ RoomExample
  /\ rayHit.distance = 3 * (Unit \div 2)

\* C6: a ray along an axis that points away from the heading reports less
\* than the face distance
C6_OffHeadingWitness ==
  /\ AxisRayCast
  /\ worldMap = MapOf(OpenRoom)
  /\ cosDiff = [n |-> 3, d |-> 5]
  /\ rayHit.distance < FaceDistance(rayDir.angle)

\* C7: castSingleRay terminates for every start position and direction,
\* including a start on a grid line and a direction exactly along an axis.
C7_Terminates == <>(rayPc = "done")

C7_Witness ==
  /\ RayDone
  /\ StartCell \in DOMAIN worldMap /\ worldMap[StartCell] = PASSAGE
  /\ rayDir.angle = "0"
  /\ deltaDist(rayDir.yn, rayDir.yd) = Inf
  /\ sideDistY = Inf
  /\ startX % Unit = 0 /\ startY % Unit = 0
  /\ raySteps >= 3

\* the cap on the iterations followed is never what stops a ray
C7_StepsWithinGrid == raySteps <= mapWidth + mapHeight /\ raySteps < MaxRaySteps

\* C8: a cell holding MARKER is traversable: a ray that enters it goes on
\* past it, and WorldMap::isWall reports false for it.
C8_MarkerTraversable ==
  \A i \in 1 .. Len(rayPath) :
     (rayPath[i] \in DOMAIN worldMap /\ worldMap[rayPath[i]] = MARKER) =>
        /\ ~(i = Len(rayPath) /\ hitWall)
        /\ ~isWall(worldMap, mapWidth, mapHeight, rayPath[i][1], rayPath[i][2])

(***************************************************************************)
(* Properties of the shared random number generator                        *)
(***************************************************************************)
\* C9: a generator constructed from an external RandomNumberGenerator shares
\* it with the caller: every draw generateMaze makes advances the external
\* generator, whose position is the number of all draws made so far.
C9_SharedRng == extRng.n = callerDraws + genDraws

(***************************************************************************)
(* Properties of the random number utility                                 *)
(***************************************************************************)
UtilCalled(f) == utilCall.fn = f

\* C11: randomInt(min,max) with min > max fails with an invalid-argument
\* error and leaves the generator as it was before the call; with min <= max
\* it returns a value v with min <= v <= max.
C11_RandomIntContract ==
  UtilCalled("randomInt") =>
    IF utilCall.min > utilCall.max
      THEN utilResult = Thrown("invalid_argument") /\ generator = generatorBefore
      ELSE /\ utilResult.kind = "value"
           /\ utilCall.min <= utilResult.value
           /\ utilResult.value <= utilCall.max

C11_Witness ==
  /\ UtilCalled("randomInt")
  /\ utilCall.min > utilCall.max
  /\ utilResult.kind = "throw"
  /\ generatorBefore.n > 0
  /\ generator = generatorBefore

\* randomInt with equal bounds returns that bound
C11_SingleValueWitness ==
  /\ UtilCalled("randomInt")
  /\ utilCall.min = utilCall.max
  /\ utilResult = Returned(utilCall.min)

\* the call asked for values of parity p (1 odd, 0 even)
ParityCalled(p) == UtilCalled(IF p = 1 THEN "randomOdd" ELSE "randomEven")

\* [min, max] of the call holds a value of parity p
HasParity(p) == \E v \in utilCall.min .. utilCall.max : v % 2 = p

\* the smallest value of parity p that is not below the call's min
AdjustedMin(p) == IF utilCall.min % 2 = p THEN utilCall.min ELSE utilCall.min + 1

\* C12: for all integers min <= max, negative values included, for which
\* [min,max] holds a value of the required parity, randomOdd returns an odd
\* value and randomEven an even value, and the value lies within [min,max].
C12_ParityAndRange ==
  \A p \in {0, 1} :
    (ParityCalled(p) /\ utilCall.min <= utilCall.max /\ HasParity(p)) =>
       /\ utilResult.kind = "value"
       /\ utilResult.value % 2 = p
       /\ utilCall.min <= utilResult.value
       /\ utilResult.value <= utilCall.max

\* C13: when [min,max] holds no value of the required parity, randomOdd and
\* randomEven return the parity-adjusted min without drawing: the generator
\* is as before the call and the value lies outside [min,max].
C13_NoParityValue ==
  \A p \in {0, 1} :
    (ParityCalled(p) /\ ~HasParity(p)) =>
       /\ utilResult = Returned(AdjustedMin(p))
       /\ generator = generatorBefore
       /\ utilResult.value \notin utilCall.min .. utilCall.max

\* number of positions of v that hold e
CountOf(v, e) == Cardinality({i \in DOMAIN v : v[i] = e})

ElementsOf(v) == {v[i] : i \in DOMAIN v}

\* C14: shuffle(vec), for every length n >= 0 and every sequence of index
\* choices, leaves vec a permutation of its original contents (same length,
\* same multiset of elements), and every index used lies in [0, n).
C14_ShufflePermutes ==
  UtilCalled("shuffle") =>
    LET before == utilCall.before
        after == utilResult.value
        n == Len(before)
    IN /\ utilResult.kind = "value"
       /\ Len(after) = n
       /\ \A e \in ElementsOf(before) \cup ElementsOf(after) :
             CountOf(after, e) = CountOf(before, e)
       /\ \A i \in DOMAIN utilCall.picks :
             i \in 0 .. (n - 1) /\ utilCall.picks[i] \in 0 .. (n - 1)

C14_Witness ==
  /\ UtilCalled("shuffle")
  /\ Len(utilCall.before) = MaxLen
  /\ utilCall.before = <<1, 2, 2, 1>> \o [i \in 1 .. (MaxLen - 4) |-> 1]
  /\ utilResult.value # utilCall.before

\* the empty and the one-element vector come back unchanged
C14_ShortWitness ==
  /\ UtilCalled("shuffle")
  /\ Len(utilCall.before) <= 1
  /\ utilResult.value = utilCall.before
  /\ generator = generatorBefore

RECURSIVE Factorial(_)
Factorial(n) == IF n <= 1 THEN 1 ELSE n * Factorial(n - 1)

\* the orderings of the vector <<1, ..., n>>
Orderings(n) == {f \in [1 .. n -> 1 .. n] : \A i, j \in 1 .. n : f[i] = f[j] => i = j}

Distinct(n) == [i \in 1 .. n |-> i]

\* C15: shuffle walks i from the last index down and swaps element i with the
\* element at an index chosen in [0,i]; for n distinct elements the sequences
\* of index choices correspond one-to-one to the n! orderings: every
\* ordering is produced, and each by exactly one choice sequence.
C15_ChoicesMatchOrderings ==
  (UtilCalled("shuffle") /\ utilCall.before = Distinct(Len(utilCall.before))) =>
    LET n == Len(utilCall.before)
        produced == {shuffle(Distinct(n), js) : js \in ShuffleChoices(n)}
    IN /\ \A i \in DOMAIN utilCall.picks : utilCall.picks[i] \in 0 .. i
       /\ utilCall.picks \in ShuffleChoices(n)
       /\ utilResult.value = shuffle(utilCall.before, utilCall.picks)
       /\ produced = Orderings(n)
       /\ Cardinality(ShuffleChoices(n)) = Factorial(n)
       /\ Cardinality(produced) = Factorial(n)

C15_Witness ==
  /\ UtilCalled("shuffle")
  /\ utilCall.before = Distinct(MaxLen)
  /\ \A i \in 1 .. MaxLen : utilResult.value[i] = MaxLen + 1 - i

(***************************************************************************)
(* Properties of the recursive-division generator                          *)
(***************************************************************************)
RDInstance == kind = "rd"

\* C16: the constructor increments an even width or height by one and
\* leaves an odd one unchanged, so getWidth, getHeight and the dimensions of
\* the generated grid are always odd.
C16_OddDimensions ==
  RDInstance =>
    /\ width = (IF ctorArgs[1] % 2 = 0 THEN ctorArgs[1] + 1 ELSE ctorArgs[1])
    /\ height = (IF ctorArgs[2] % 2 = 0 THEN ctorArgs[2] + 1 ELSE ctorArgs[2])
    /\ width % 2 = 1 /\ height % 2 = 1
    /\ (calls >= 1 \/ pc = "loop") => DOMAIN maze = Cells(width, height)
    /\ \A n \in (-MaxRDDim) .. MaxRDDim :
          /\ RDNormalize(n) % 2 = 1
          /\ RDNormalize(n) = (IF n % 2 = 0 THEN n + 1 ELSE n)

C16_Witness ==
  /\ RDInstance
  /\ ctorArgs = <<4, 6>>
  /\ width = 5 /\ height = 7
  /\ calls >= 1
  /\ DOMAIN maze = Cells(5, 7)

RDFinished == RDInstance /\ pc = "idle" /\ calls >= 1

RDRunning == RDInstance /\ pc = "loop"

\* C17: for every width and height >= 3 and every sequence of random
\* choices, after generateMaze every border cell is WALL except the entrance
\* (0,1) and the exit (width-1, height-2), which are PASSAGE; while the
\* divisions are drawn no border cell is changed.
C17_DivisionBorder ==
  /\ RDRunning => \A c \in BorderCells(width, height) : maze[c] = WALL
  /\ RDFinished =>
       \A c \in BorderCells(width, height) :
          IF c = <<0, 1>> \/ c = <<width - 1, height - 2>>
            THEN maze[c] = PASSAGE
            ELSE maze[c] = WALL

C17_Witness ==
  /\ RDFinished
  /\ ctorArgs = <<7, 4>>
  /\ maze[<<0, 1>>] = PASSAGE
  /\ maze[<<width - 1, height - 2>>] = PASSAGE
  /\ \E c \in DOMAIN maze : c \notin BorderCells(width, height) /\ maze[c] = WALL

(***************************************************************************)
(* Properties of the returned RayHit                                       *)
(***************************************************************************)
\* the ray length before the fisheye correction: the side distance of the
\* axis of the last step minus one delta of that axis
UncorrectedLength ==
  IF hitSide = "VERTICAL" THEN FSub(sideDistX, deltaDist(rayDir.xn, rayDir.xd))
                          ELSE FSub(sideDistY, deltaDist(rayDir.yn, rayDir.yd))

\* the coordinate of the face of cell index c that a ray of direction
\* component n crosses when it enters the cell
CrossedFace(c, n) == IF n < 0 THEN (c + 1) * Unit ELSE c * Unit

\* a ray that has taken at least one step and has returned
RayCastWithStep == RayDone /\ raySteps >= 1

\* C18: the distance stored in a RayHit is the uncorrected ray length
\* multiplied by cos(ray angle - view heading); hitX and hitY are the start
\* position plus the ray direction times the uncorrected length, so the hit
\* point lies on the face of the hit cell that was crossed.
C18_HitPointOnFace ==
  RayCastWithStep =>
    /\ rayHit.distance = FScale(UncorrectedLength, cosDiff.n, cosDiff.d)
    /\ rayHit.hitX = startX + FScale(UncorrectedLength, rayDir.xn, rayDir.xd)
    /\ rayHit.hitY = startY + FScale(UncorrectedLength, rayDir.yn, rayDir.yd)
    /\ IF hitSide = "VERTICAL"
         THEN /\ rayHit.hitX = CrossedFace(currentMapX, rayDir.xn)
              /\ rayHit.hitY >= currentMapY * Unit
              /\ rayHit.hitY <= (currentMapY + 1) * Unit
         ELSE /\ rayHit.hitY = CrossedFace(currentMapY, rayDir.yn)
              /\ rayHit.hitX >= currentMapX * Unit
              /\ rayHit.hitX <= (currentMapX + 1) * Unit

C18_Witness ==
  /\ RayCastWithStep
  /\ rayDir.angle \notin AxisAngles
  /\ rayDir.xn < 0
  /\ cosDiff = [n |-> 3, d |-> 5]
  /\ raySteps >= 3
  /\ hitSide = "VERTICAL"
  /\ rayHit.hitX = (currentMapX + 1) * Unit
  /\ rayHit.distance < UncorrectedLength

\* the latest subdivide call has drawn and breached a division
RDDivided == RDRunning /\ lastDiv.division # <<>>

\* C19: for a grid of any width and height, right after subdivide has drawn
\* and breached a division, every cell of the division line within the
\* chamber's span is WALL except exactly one cell, the breach, which is
\* PASSAGE.
C19_DivisionLineDrawn ==
  RDDivided =>
    LET line == getWallPoints(lastDiv.division)
        breach == getPassagePoint(lastDiv.division)
    IN /\ breach \in line
       /\ maze[breach] = PASSAGE
       /\ \A c \in line \ {breach} : maze[c] = WALL

\* C20: over the whole recursion started from Rectangle(1,1,width-2,height-2),
\* for every odd width and height >= 3, the division line chosen for a
\* chamber lies in [start+1, start+extent-2] along the split axis, so no
\* wall cell is placed on the chamber's first or last row or column, and
\* every chamber passed to subdivide has width >= 1 and height >= 1.
C20_LineStrictlyInside ==
  /\ RDDivided =>
       LET chamber == lastDiv.chamber
           d == lastDiv.division
           start == IF d.orientation = "HORIZONTAL" THEN chamber.y ELSE chamber.x
           extent == IF d.orientation = "HORIZONTAL" THEN chamber.height ELSE chamber.width
       IN /\ d.line >= start + 1
          /\ d.line <= start + extent - 2
  /\ RDRunning =>
       \A i \in DOMAIN work : work[i].width >= 1 /\ work[i].height >= 1

\* a subdivide call has run; lastDiv holds its chamber
RDSubdivided == RDRunning /\ lastDiv.chamber # <<>>

\* C21 as stated: subdivide returns without drawing a wall exactly when the
\* chamber's width and height are both below 3; a chamber with at least one
\* dimension >= 3 is divided.
C21_ReturnsWhenBothSmall ==
  RDSubdivided =>
    (lastDiv.division = <<>> <=> (lastDiv.chamber.width < 3 /\ lastDiv.chamber.height < 3))

\* C21 as amended: subdivide returns without drawing a wall, leaving the grid
\* as it is and calling itself no further, exactly when the chamber's width
\* or its height is below 3; a chamber with both dimensions >= 3 is divided.
C21_ReturnsWhenEitherSmall ==
  [][(RDRunning /\ work # <<>>) =>
       LET chamber == Last(work)
           small == chamber.width < 3 \/ chamber.height < 3
       IN /\ lastDiv'.chamber = chamber
          /\ small <=> lastDiv'.division = <<>>
          /\ small => (maze' = maze /\ work' = Front(work))
          /\ ~small => work' = Front(work) \o <<split(chamber, lastDiv'.division)[2],
                                                 split(chamber, lastDiv'.division)[1]>>]_vars

C21_Witness ==
  /\ RDSubdivided
  /\ lastDiv.chamber.width >= 3
  /\ lastDiv.chamber.height < 3
  /\ lastDiv.chamber.height >= 1
  /\ lastDiv.division = <<>>

\* C22: for every odd width and height >= 3 and every sequence of random
\* choices, after generateMaze the exit cell (width-1, height-2) can be
\* reached from the entrance cell (0,1) by moves between 4-adjacent PASSAGE
\* cells.
C22_ExitReachable ==
  RDFinished =>
    <<width - 1, height - 2>> \in ReachFrom({<<0, 1>>}, PassageCells(maze))

\* the grid cells a rectangle covers
RectCells(r) == (r.x .. (r.x + r.width - 1)) \X (r.y .. (r.y + r.height - 1))

\* split's contract for chamber r and division d
SplitPartitions(r, d) ==
  LET subs == split(r, d)
      horizontal == d.orientation = "HORIZONTAL"
      start == IF horizontal THEN r.y ELSE r.x
      extent == IF horizontal THEN r.height ELSE r.width
      Along(c) == IF horizontal THEN c[2] ELSE c[1]
      line == getWallPoints(d)
  IN /\ Len(subs) = 2
     /\ IF horizontal
          THEN \A i \in 1 .. 2 : subs[i].x = r.x /\ subs[i].width = r.width
          ELSE \A i \in 1 .. 2 : subs[i].y = r.y /\ subs[i].height = r.height
     /\ RectCells(subs[1]) = {c \in RectCells(r) : Along(c) <= d.line - 1}
     /\ RectCells(subs[2]) = {c \in RectCells(r) : Along(c) >= d.line + 1}
     /\ RectCells(subs[1]) \cap RectCells(subs[2]) = {}
     /\ RectCells(subs[1]) \cap line = {}
     /\ RectCells(subs[2]) \cap line = {}
     /\ RectCells(subs[1]) \cup RectCells(subs[2]) \cup line = RectCells(r)

\* the divisions createDivision can produce for a chamber
DivisionsOf(r) ==
  UNION {{createDivision(r, b, ko, ke) :
            ko \in DrawSet(RDLineCount(r, chooseDivisionOrientation(r, b))),
            ke \in DrawSet(RDPassageCount(r, chooseDivisionOrientation(r, b)))} :
         b \in BOOLEAN}

\* C23: Rectangle::split, for any chamber with width >= 3 and height >= 3 and
\* any division createDivision produces for it, returns two sub-chambers
\* that keep the chamber's span on the unsplit axis and cover [start, line-1]
\* and [line+1, start+extent-1] on the split axis; the two sub-chambers and
\* the division line are pairwise disjoint and their union is the chamber.
C23_SplitPartitions ==
  /\ RDDivided =>
       /\ SplitPartitions(lastDiv.chamber, lastDiv.division)
       /\ lastDiv.division \in DivisionsOf(lastDiv.chamber)
  /\ (RDInstance /\ pc = "idle" /\ calls = 0) =>
       \A x, y \in 1 .. 2, w, h \in 3 .. 5 :
          \A d \in DivisionsOf(Rectangle(x, y, w, h)) :
             SplitPartitions(Rectangle(x, y, w, h), d)

C23_Witness ==
  /\ RDDivided
  /\ lastDiv.chamber.width < lastDiv.chamber.height
  /\ lastDiv.division.orientation = "HORIZONTAL"
  /\ lastDiv.chamber.y > 1
  /\ Len(work) >= 2
  /\ RectCells(work[Len(work)]) # {}
  /\ RectCells(work[Len(work) - 1]) # {}
  /\ work[Len(work)] = split(lastDiv.chamber, lastDiv.division)[1]
  /\ work[Len(work) - 1] = split(lastDiv.chamber, lastDiv.division)[2]

\* C24: chooseDivisionOrientation returns VERTICAL for a chamber wider than
\* tall and HORIZONTAL for a chamber taller than wide, in both cases without
\* drawing from the RNG; only for a square chamber does it draw one random
\* boolean.
C24_OrientationByShape ==
  RDDivided =>
    LET chamber == lastDiv.chamber
        o == lastDiv.division.orientation
    IN /\ chamber.width > chamber.height => (o = "VERTICAL" /\ ~lastDiv.drewBoolean)
       /\ chamber.height > chamber.width => (o = "HORIZONTAL" /\ ~lastDiv.drewBoolean)
       /\ chamber.width = chamber.height => lastDiv.drewBoolean
       /\ o \in {"HORIZONTAL", "VERTICAL"}

\* a square chamber divided by a vertical line
C24_Witness ==
  /\ RDDivided
  /\ lastDiv.chamber.width = lastDiv.chamber.height
  /\ lastDiv.chamber.width >= 4
  /\ lastDiv.drewBoolean
  /\ lastDiv.division.orientation = "VERTICAL"

\* C24: a square chamber divided by a horizontal line
C24_SquareHorizontalWitness ==
  /\ RDDivided
  /\ lastDiv.chamber.width = lastDiv.chamber.height
  /\ lastDiv.chamber.width >= 4
  /\ lastDiv.drewBoolean
  /\ lastDiv.division.orientation = "HORIZONTAL"

\* C24: a wide and a tall chamber divided without a draw
C24_OblongWitness ==
  /\ RDDivided
  /\ lastDiv.chamber.width # lastDiv.chamber.height
  /\ ~lastDiv.drewBoolean
  /\ lastDiv.chamber # Rectangle(1, 1, width - 2, height - 2)

\* C25: every division created during generateMaze has an odd line
\* coordinate and an even breach coordinate (absolute grid coordinates), and
\* the breach coordinate lies within the chamber's span along the wall, for
\* every chamber reached in the recursion.
C25_LineOddBreachEven ==
  RDDivided =>
    LET chamber == lastDiv.chamber
        d == lastDiv.division
        horizontal == d.orientation = "HORIZONTAL"
        spanStart == IF horizontal THEN chamber.x ELSE chamber.y
        spanLength == IF horizontal THEN chamber.width ELSE chamber.height
    IN /\ d.line % 2 = 1
       /\ d.passagePosition % 2 = 0
       /\ d.startCoord = spanStart
       /\ d.wallLength = spanLength
       /\ d.passagePosition >= spanStart
       /\ d.passagePosition <= spanStart + spanLength - 1
       /\ getPassagePoint(d) \in getWallPoints(d)

C25_Witness ==
  /\ RDDivided
  /\ lastDiv.chamber.x > 1
  /\ lastDiv.chamber.y > 1
  /\ lastDiv.division.line % 2 = 1
  /\ lastDiv.division.passagePosition % 2 = 0
  /\ lastDiv.division.passagePosition > lastDiv.division.startCoord

(***************************************************************************)
(* Properties of the depth-first loop                                      *)
(***************************************************************************)
DFSInstance == kind = "dfs"

DFSRunning == DFSInstance /\ pc = "loop"

\* a loop iteration carves and pushes a cell that was still WALL
DFSCarvesAndPushes ==
  /\ Len(stack') = Len(stack) + 1
  /\ Front(stack') = stack
  /\ maze[Last(stack')] = WALL
  /\ maze'[Last(stack')] = PASSAGE
  /\ Last(stack') \notin {stack[i] : i \in DOMAIN stack}

\* a loop iteration pops the stack and leaves the grid alone
DFSPops == stack' = Front(stack) /\ maze' = maze

\* C26: generateMaze terminates for every width and height >= 3 and every
\* sequence of random choices: each loop iteration either carves and pushes
\* a cell that was still WALL or pops the stack, no carved cell turns back
\* into WALL (so no cell is pushed twice), and the stack eventually becomes
\* empty and the call returns.
C26_DepthFirstTerminates ==
  /\ [][(DFSRunning /\ stack # <<>>) =>
          /\ DFSCarvesAndPushes \/ DFSPops
          /\ \A c \in DOMAIN maze : maze[c] # WALL => maze'[c] # WALL]_vars
  /\ DFSRunning ~> (DFSInstance /\ pc = "idle" /\ stack = <<>>)

C26_Witness ==
  /\ DFSInstance
  /\ pc = "idle"
  /\ calls = 1
  /\ stack = <<>>
  /\ width = 6 /\ height = 7
  /\ maze[<<3, 5>>] = PASSAGE

\* the cells an iteration writes for the random choice js
DFSCellsCarved(js) ==
  LET cur == Last(stack)
      nbs == DFSNeighbors(maze, width, height, cur, js)
  IN IF nbs # <<>> THEN {DFSWallBetween(cur, nbs[1]), nbs[1]} ELSE {}

\* the cells generateMaze writes outside the loop: the start and the markers
DFSFixedCells == {<<1, 1>>, <<0, 1>>, <<width - 1, height - 2>>}

\* C27: for every width and height >= 3, even values included, every grid
\* cell read or written during generateMaze is inside the grid: a neighbour
\* two cells away that falls outside the bounds is never a candidate, and
\* the wall cell between the current cell and a chosen neighbour is in
\* bounds (as are the start cell and the two marker cells).
C27_AccessesInsideGrid ==
  DFSInstance =>
    /\ DOMAIN maze = Cells(width, height)
    /\ DFSFixedCells \subseteq DOMAIN maze
    /\ (pc = "loop" /\ stack # <<>>) =>
         /\ Last(stack) \in DOMAIN maze
         /\ DFSCellsRead(width, height, Last(stack)) \subseteq DOMAIN maze
         /\ \A js \in ShuffleChoices(4) :
              /\ DFSCellsCarved(js) \subseteq DOMAIN maze
              /\ \A c \in DFSCandidates(Last(stack)) \ DOMAIN maze :
                   c \notin DFSCellsCarved(js)

\* an even-sized grid whose current cell has a neighbour outside the grid
C27_Witness ==
  /\ DFSInstance
  /\ pc = "loop"
  /\ stack # <<>>
  /\ width = 4 /\ height = 6
  /\ Last(stack) = <<3, 5>>
  /\ DFSCandidates(Last(stack)) \ DOMAIN maze # {}

\* b is exactly two cells from a along one axis
TwoApart(a, b) ==
  \/ a[1] = b[1] /\ (a[2] - b[2] = 2 \/ b[2] - a[2] = 2)
  \/ a[2] = b[2] /\ (a[1] - b[1] = 2 \/ b[1] - a[1] = 2)

\* the cell halfway between two cells that are two apart
Midpoint(a, b) == <<(a[1] + b[1]) \div 2, (a[2] + b[2]) \div 2>>

\* C28: at every iteration of the depth-first loop the backtracking stack
\* is a simple path in the carved maze: its bottom element is (1,1), its
\* entries are pairwise distinct passage cells, and each entry is exactly
\* two cells from the one below it along one axis with the cell between
\* them already carved to passage.
C28_StackIsSimplePath ==
  (DFSRunning /\ stack # <<>>) =>
    /\ stack[1] = <<1, 1>>
    /\ \A i \in DOMAIN stack : stack[i] \in DOMAIN maze /\ maze[stack[i]] = PASSAGE
    /\ \A i, j \in DOMAIN stack : i # j => stack[i] # stack[j]
    /\ \A i \in 2 .. Len(stack) :
         /\ TwoApart(stack[i - 1], stack[i])
         /\ maze[Midpoint(stack[i - 1], stack[i])] = PASSAGE

\* a stack with a turn in it, after the walk has backtracked from a dead end
C28_Witness ==
  /\ DFSRunning
  /\ Len(stack) >= 4
  /\ stack[2][1] # stack[4][1] /\ stack[2][2] # stack[4][2]
  /\ \E c \in DOMAIN maze :
       /\ maze[c] = PASSAGE
       /\ Odd(c[1]) /\ Odd(c[2])
       /\ c \notin {stack[i] : i \in DOMAIN stack}

ChangedCells == {c \in DOMAIN maze : maze'[c] # maze[c]}

\* the chambers still waiting for their subdivide call
PendingCells == UNION {RectCells(work[i]) : i \in DOMAIN work}

\* C30: subdivide(chamber), including all its recursive calls, changes only
\* grid cells inside the chamber's rectangle.  Each call changes only cells
\* of its own chamber and hands only rectangles inside that chamber to its
\* recursive calls; so the border, the cells of the sibling chambers still
\* pending and the cells of division lines drawn earlier (the breach
\* included) are left unchanged.  Chambers pending at the same time are
\* pairwise disjoint, lie in the interior and hold no cell of a line drawn
\* earlier.
C30_SubdivideFrame ==
  /\ [](RDRunning =>
          /\ \A i, j \in DOMAIN work :
               i # j => RectCells(work[i]) \cap RectCells(work[j]) = {}
          /\ PendingCells \subseteq Cells(width, height) \ BorderCells(width, height)
          /\ \A c \in PendingCells : maze[c] = PASSAGE
          /\ RDDivided =>
               (getWallPoints(lastDiv.division) \cup {getPassagePoint(lastDiv.division)})
                  \cap PendingCells = {})
  /\ [][(RDRunning /\ work # <<>>) =>
          /\ ChangedCells \subseteq RectCells(Last(work))
          /\ \A i \in Len(work) .. Len(work') :
               RectCells(work'[i]) \subseteq RectCells(Last(work))
          /\ ChangedCells \cap BorderCells(width, height) = {}
          /\ \A i \in 1 .. (Len(work) - 1) : ChangedCells \cap RectCells(work[i]) = {}
          /\ RDDivided =>
               ChangedCells \cap (getWallPoints(lastDiv.division)
                                    \cup {getPassagePoint(lastDiv.division)}) = {}]_vars

\* a recursive call has drawn a division inside a sub-chamber while a
\* sibling chamber is still pending
C30_Witness ==
  /\ RDDivided
  /\ lastDiv.chamber # Rectangle(1, 1, width - 2, height - 2)
  /\ Len(work) >= 3
  /\ \E c \in RectCells(lastDiv.chamber) : maze[c] = WALL
  /\ \E i \in DOMAIN work :
       /\ RectCells(work[i]) # {}
       /\ RectCells(work[i]) \cap RectCells(lastDiv.chamber) = {}

====
